---------------------------- MODULE Spec2Model ----------------------------
(***************************************************************************)
(* Model of the create-any-tools scaffolding CLI (init and its helpers).   *)
(*                                                                         *)
(* Strings are sequences of symbols.  A symbol is either one punctuation   *)
(* character ("/", ".", " ", "{", "}", "\\", "\"", "-", "!") or a label    *)
(* standing for one word character (a character matched by \w).  File     *)
(* names are strings; a path is a sequence of file names from the root of  *)
(* the file system.                                                        *)
(***************************************************************************)
EXTENDS Naturals, Sequences, FiniteSets, TLC

(***************************************************************************)
(* Strings                                                                 *)
(***************************************************************************)
\* the value undefined: a reserved one-symbol string no input contains
Undefined == <<"<undefined>">>

NonWord == {"/", ".", " ", "{", "}", "\\", "\"", "-", "!"}

IsWord(c) == c \notin NonWord

RECURSIVE SkipSpaces(_, _)
\* the regex fragment ` *` : index after the run of spaces starting at i
SkipSpaces(s, i) ==
    IF i <= Len(s) /\ s[i] = " " THEN SkipSpaces(s, i + 1) ELSE i

RECURSIVE SkipWord(_, _)
\* the regex fragment `\w+` : index after the run of word characters at i
SkipWord(s, i) ==
    IF i <= Len(s) /\ IsWord(s[i]) THEN SkipWord(s, i + 1) ELSE i

RECURSIVE TrimStart(_)
TrimStart(s) ==
    IF s # <<>> /\ Head(s) = " " THEN TrimStart(Tail(s)) ELSE s

RECURSIVE TrimEnd(_)
TrimEnd(s) ==
    IF s # <<>> /\ s[Len(s)] = " " THEN TrimEnd(SubSeq(s, 1, Len(s) - 1)) ELSE s

\* String.prototype.trim
Trim(s) == TrimEnd(TrimStart(s))

RECURSIVE StripTrailingSlashes(_)
\* .replace(/\/+$/g, '')
StripTrailingSlashes(s) ==
    IF s # <<>> /\ s[Len(s)] = "/"
    THEN StripTrailingSlashes(SubSeq(s, 1, Len(s) - 1))
    ELSE s

\* formatTargetDir: targetDir?.trim().replace(/\/+$/g, '')
formatTargetDir(targetDir) ==
    IF targetDir = Undefined THEN Undefined
    ELSE StripTrailingSlashes(Trim(targetDir))

\* JavaScript truthiness of a string-or-undefined value
Truthy(v) == v # Undefined /\ v # <<>>

defaultTargetDir == <<"new", "-", "project">>

(***************************************************************************)
(* Paths                                                                   *)
(***************************************************************************)
RECURSIVE Segments(_, _)
\* s split on "/" ; cur is the segment being read
Segments(s, cur) ==
    IF s = <<>> THEN <<cur>>
    ELSE IF Head(s) = "/" THEN <<cur>> \o Segments(Tail(s), <<>>)
    ELSE Segments(Tail(s), Append(cur, Head(s)))

RECURSIVE DropDots(_)
\* path normalisation: empty and "." segments vanish
DropDots(segs) ==
    IF segs = <<>> THEN <<>>
    ELSE IF Head(segs) = <<>> \/ Head(segs) = <<".">> THEN DropDots(Tail(segs))
    ELSE <<Head(segs)>> \o DropDots(Tail(segs))

Components(s) == DropDots(Segments(s, <<>>))

IsAbsolute(s) == s # <<>> /\ Head(s) = "/"

\* process.cwd(), as a path
cwd == << <<"work">> >>

\* the path a file-system call resolves the string s to
FsPath(s) == IF IsAbsolute(s) THEN Components(s) ELSE cwd \o Components(s)

\* path.join(cwd, s) as a path: join never restarts at an absolute segment
JoinCwd(s) == cwd \o Components(s)

\* path.parse(file).dir and .base of a relative path string
RECURSIVE LastSlash(_, _)
LastSlash(s, i) ==
    IF i = 0 THEN 0 ELSE IF s[i] = "/" THEN i ELSE LastSlash(s, i - 1)

ParseDir(file) ==
    LET k == LastSlash(file, Len(file)) IN
    IF k = 0 THEN <<>> ELSE SubSeq(file, 1, k - 1)

ParseBase(file) ==
    LET k == LastSlash(file, Len(file)) IN SubSeq(file, k + 1, Len(file))

IsPrefix(p, q) == Len(p) <= Len(q) /\ SubSeq(q, 1, Len(p)) = p

Parent(p) == SubSeq(p, 1, Len(p) - 1)

(***************************************************************************)
(* File system: a function from the paths that exist to their nodes        *)
(***************************************************************************)
DirNode == [kind |-> "dir", data |-> <<>>]

FileNode(d) == [kind |-> "file", data |-> d]

LinkNode(t) == [kind |-> "link", data |-> t]

\* fs.existsSync
Exists(f, p) == p = <<>> \/ p \in DOMAIN f

IsDir(f, p) == p = <<>> \/ (p \in DOMAIN f /\ f[p].kind = "dir")

\* fs.readdirSync of a directory: the names of its entries
Readdir(f, p) == {q[Len(q)] : q \in {r \in DOMAIN f : Len(r) = Len(p) + 1 /\ IsPrefix(p, r)}}

DotGit == <<".", "git">>

\* isEmpty without the `.git` clause
isEmpty_NoGitClause(f, p) == Cardinality(Readdir(f, p)) = 0

\* isEmpty(path): files.length === 0 || (files.length === 1 && files[0] === '.git')
isEmpty(f, p) ==
    LET files == Readdir(f, p) IN
    Cardinality(files) = 0 \/ (Cardinality(files) = 1 /\ files = {DotGit})

\* emptyDir(dir): fs.rmSync(..., {recursive, force}) on every entry but '.git
emptyDir(f, dir) ==
    IF ~Exists(f, dir) THEN f
    ELSE [q \in {r \in DOMAIN f :
                   ~(IsPrefix(dir, r) /\ Len(r) > Len(dir) /\ r[Len(dir) + 1] # DotGit)}
            |-> f[q]]

\* the proper ancestors of p and p itself, root excluded
Ancestors(p) == {SubSeq(p, 1, k) : k \in 1..Len(p)}

\* mkdir -p succeeds unless some component exists and is not a directory
CanMkdirp(f, p) == \A a \in Ancestors(p) : a \in DOMAIN f => f[a].kind = "dir"

Mkdirp(f, p) ==
    [q \in DOMAIN f \cup Ancestors(p) |-> IF q \in DOMAIN f THEN f[q] ELSE DirNode]

Put(f, p, node) == [q \in DOMAIN f \cup {p} |-> IF q = p THEN node ELSE f[q]]

(***************************************************************************)
(* replaceTemplate                                                         *)
(***************************************************************************)
\* Object.prototype members, which scope?.[key] finds on a plain object
\* when the object has no own property of that name; the value is what
\* String.prototype.replace makes of the function it finds
ObjectPrototype ==
    [k \in { <<"toString">> } |-> <<"function", " ", "toString", "!">>]

\* scope?.[key]
ScopeGet(scope, key) ==
    IF key \in DOMAIN scope THEN scope[key]
    ELSE IF key \in DOMAIN ObjectPrototype THEN ObjectPrototype[key]
    ELSE Undefined

\* one attempt of /(\\)?{{ *(\w+) *}}/ at index i of s
MatchAt(s, i) ==
    LET skip  == s[i] = "\\"
        open  == IF skip THEN i + 1 ELSE i
        k1    == SkipSpaces(s, open + 2)
        k2    == SkipWord(s, k1)
        k3    == SkipSpaces(s, k2)
        ok    == /\ open + 1 <= Len(s)
                 /\ s[open] = "{" /\ s[open + 1] = "{"
                 /\ k2 > k1
                 /\ k3 + 1 <= Len(s)
                 /\ s[k3] = "}" /\ s[k3 + 1] = "}"
    IN  [ok |-> ok, skip |-> skip,
         key |-> IF ok THEN SubSeq(s, k1, k2 - 1) ELSE <<>>,
         next |-> IF ok THEN k3 + 2 ELSE i + 1]

\* the replacer callback (block, skip, key) => ...
Replacer(block, skip, key, scope) ==
    IF skip THEN SubSeq(block, 2, Len(block))
    ELSE IF Truthy(ScopeGet(scope, key)) THEN ScopeGet(scope, key) ELSE block

RECURSIVE ReplaceFrom(_, _, _)
ReplaceFrom(s, scope, i) ==
    IF i > Len(s) THEN <<>>
    ELSE LET m == MatchAt(s, i) IN
         IF m.ok
         THEN Replacer(SubSeq(s, i, m.next - 1), m.skip, m.key, scope)
                \o ReplaceFrom(s, scope, m.next)
         ELSE <<s[i]>> \o ReplaceFrom(s, scope, i + 1)

\* replaceTemplate(content, scope)
replaceTemplate(content, scope) == ReplaceFrom(content, scope, 1)

\* const fileMapping = {...}
fileMapping ==
    ( <<"gitignore">>                 :> <<".", "gitignore">> ) @@
    ( <<"_gitignore">>                :> <<".", "gitignore">> ) @@
    ( <<"_", ".", "gitignore">>       :> <<".", "gitignore">> ) @@
    ( <<"_package", ".", "json">>     :> <<"package", ".", "json">> ) @@
    ( <<"_", ".", "eslintrc">>        :> <<".", "eslintrc">> ) @@
    ( <<"_", ".", "eslintignore">>    :> <<".", "eslintignore">> ) @@
    ( <<"_", ".", "npmignore">>       :> <<".", "npmignore">> )

\* fileMapping[basename] || basename
MappedName(basename) ==
    IF basename \in DOMAIN fileMapping THEN fileMapping[basename] ELSE basename

\* const to = path.join(targetDir, dirname, replaceTemplate(fileName, locals)),
\* as the path the file-system calls resolve it to
Destination(targetDir, file, locals) ==
    LET joined == targetDir \o <<"/">> \o ParseDir(file) \o <<"/">>
                    \o replaceTemplate(MappedName(ParseBase(file)), locals)
    IN  FsPath(joined)

(***************************************************************************)
(* Inputs                                                                  *)
(***************************************************************************)
App == <<"app">>
Abs == <<"abs">>
PackageJson == <<"package", ".", "json">>
Head_ == <<"HEAD">>

\* the longest run of trailing slashes, and of surrounding spaces, typed
MaxSlashes == 1
MaxSpaces == 1

RECURSIVE Repeat(_, _)
Repeat(c, n) == IF n = 0 THEN <<>> ELSE <<c>> \o Repeat(c, n - 1)

TargetNames == { <<".">>, App, <<"/", "abs">> }

\* argv._[0] : absent, or the positional argument as typed
ArgInputs ==
    { Undefined }
      \cup { Repeat(" ", k) \o base \o Repeat("/", j) \o Repeat(" ", k) :
               base \in TargetNames, j \in 0..MaxSlashes, k \in 0..MaxSpaces }

\* what the user may type at the "Project name:" prompt
NameInputs ==
    { <<>> } \cup { base \o Repeat("/", j) : base \in TargetNames, j \in 0..MaxSlashes }

\* the candidates searchTemplate returns
Frameworks == { "tplA" }

\* an answer not given
Unset == "undefined"

\* the directories a run of this model may target
TargetDirs == { cwd \o <<App>>, <<Abs>>, cwd \o <<defaultTargetDir>> }

\* the paths of a directory d holding the entries named in S
Content(d, S) ==
    {d \o <<n>> : n \in S}
      \cup (IF DotGit \in S THEN {d \o <<DotGit, Head_>>} ELSE {})

InitPaths(kind, S) ==
    {cwd} \cup Content(cwd, S)
      \cup (IF kind = "absent" THEN {}
            ELSE IF kind = "file" THEN TargetDirs
            ELSE TargetDirs \cup UNION {Content(d, S) : d \in TargetDirs})

InitNode(kind, p) ==
    IF p \in TargetDirs /\ kind = "file" THEN FileNode(<<"x">>)
    ELSE IF p[Len(p)] \in {PackageJson, Head_} THEN FileNode(<<"x">>)
    ELSE DirNode

\* the file system before the run
InitFs(kind, S) == [p \in InitPaths(kind, S) |-> InitNode(kind, p)]

(***************************************************************************)
(* State                                                                   *)
(***************************************************************************)
VARIABLES
    pc,            \* where the run is
    argv0,         \* argv._[0]
    argTargetDir,  \* const argTargetDir
    targetDir,     \* let targetDir
    fs,            \* the file system
    fs0,           \* the file system before the run (history)
    message,       \* the message of the overwrite prompt, once evaluated
    overwrite,     \* result.overwrite
    framework,     \* result.framework
    stdout,        \* what console.log printed, in order
    exitCode,      \* the outcome of the process
    error,         \* what ended the run early
    trace,         \* the stages entered, in order (history)
    scratch,       \* the scratch directory saveDir
    scratch0,      \* the scratch directory before the run (history)
    archive,       \* the extracted package: its manifest and its payload
    questions,     \* askForVariable: the questions to ask, in order
    asked,         \* the names asked so far, in order (history)
    locals,        \* the answers
    pending,       \* processFiles: the entries glob returned, not yet visited
    writes,        \* every (entry, destination) processFiles computed (history)
    tpl            \* one call of replaceTemplate: content, scope, result

vars == <<pc, argv0, argTargetDir, targetDir, fs, fs0, message, overwrite,
          framework, stdout, exitCode, error, trace, scratch, scratch0,
          archive, questions, asked, locals, pending, writes, tpl>>

NoArchive == [manifest |-> [load |-> "none", entries |-> <<>>], payload |-> <<>>]

NoTpl == [content |-> <<>>, scope |-> <<>>, result |-> <<>>]

Init ==
    /\ pc = "start"
    /\ argv0 \in ArgInputs
    /\ argTargetDir = Undefined
    /\ targetDir = Undefined
    /\ \E kind \in {"absent", "file", "dir"}, S \in SUBSET {DotGit, PackageJson} :
          fs = InitFs(kind, S)
    /\ fs0 = fs
    /\ message = <<>>
    /\ overwrite = Unset
    /\ framework = Unset
    /\ stdout = <<>>
    /\ exitCode = "running"
    /\ error = "none"
    /\ trace = <<>>
    /\ scratch \in {"absent", "stale"}
    /\ scratch0 = scratch
    /\ archive = NoArchive
    /\ questions = <<>>
    /\ asked = <<>>
    /\ locals = <<>>
    /\ pending = {}
    /\ writes = {}
    /\ tpl = NoTpl

(***************************************************************************)
(* init: the prompts                                                       *)
(***************************************************************************)
Enter(stage) == trace' = Append(trace, stage)

CancelledMessage == <<"x", " ", "Operation cancelled">>

\* catch (cancelled) { console.log(cancelled.message); return; }
\* init returns, the promise resolves and the process ends with status 0
Abort(why, msg) ==
    /\ pc' = "aborted"
    /\ error' = why
    /\ stdout' = Append(stdout, msg)
    /\ exitCode' = "zero"

\* a rejection nothing handles: init().catch() installs no handler
Crash(why) ==
    /\ pc' = "crashed"
    /\ error' = why
    /\ exitCode' = "nonzero"

\* const argTargetDir = formatTargetDir(argv._[0])
ResolveTarget ==
    /\ pc = "start"
    /\ argTargetDir' = formatTargetDir(argv0)
    /\ Enter("ResolvingTarget")
    /\ pc' = "search"
    /\ UNCHANGED <<argv0, targetDir, fs, fs0, message, overwrite, framework,
                   stdout, exitCode, error, scratch, scratch0, archive,
                   questions, asked, locals, pending, writes, tpl>>

\* const frameworks = await searchTemplate(); let targetDir = ...
SearchTemplate ==
    /\ pc = "search"
    /\ Enter("SearchingTemplates")
    /\ \/ /\ targetDir' = IF Truthy(argTargetDir) THEN argTargetDir
                          ELSE defaultTargetDir
          /\ pc' = "projectName"
          /\ UNCHANGED <<exitCode, error>>
       \/ /\ Crash("network")
          /\ UNCHANGED targetDir
    /\ UNCHANGED <<argv0, argTargetDir, fs, fs0, message, overwrite, framework,
                   stdout, scratch, scratch0, archive, questions, asked,
                   locals, pending, writes, tpl>>

\* the question 'projectName': skipped when an argument was given
ProjectName ==
    /\ pc = "projectName"
    /\ \/ /\ Truthy(argTargetDir)
          /\ pc' = "overwriteType"
          /\ UNCHANGED <<targetDir, trace, stdout, exitCode, error>>
       \/ /\ ~Truthy(argTargetDir)
          /\ Enter("PromptingProjectName")
          /\ \/ \E typed \in NameInputs :
                  /\ targetDir' = IF Truthy(formatTargetDir(typed))
                                  THEN formatTargetDir(typed)
                                  ELSE defaultTargetDir
                  /\ pc' = "overwriteType"
                  /\ UNCHANGED <<stdout, exitCode, error>>
             \/ /\ Abort("cancel", CancelledMessage)
                /\ UNCHANGED targetDir
    /\ UNCHANGED <<argv0, argTargetDir, fs, fs0, message, overwrite, framework,
                   scratch, scratch0, archive, questions, asked, locals,
                   pending, writes, tpl>>

\* the message without the special case for `.`
OverwriteMessage_AlwaysQuoted(dir) ==
    <<"Target directory ", "\"">> \o dir \o <<"\"">>
      \o <<" is not empty.", " Please choose how to proceed:">>

\* message: () => (targetDir === '.' ? ... : ...) + ` is not empty. ...`
OverwriteMessage(dir) ==
    (IF dir = <<".">> THEN <<"Current directory">>
     ELSE <<"Target directory ", "\"">> \o dir \o <<"\"">>)
      \o <<" is not empty.", " Please choose how to proceed:">>

\* the type without its condition: the decision is always presented
OverwritePromptType_AlwaysSelect(f, dir) == "select"

\* type: () => !fs.existsSync(targetDir) || isEmpty(targetDir) ? null : 'select'
OverwritePromptType(f, dir) ==
    IF ~Exists(f, FsPath(dir)) \/ isEmpty(f, FsPath(dir)) THEN "null" ELSE "select"

\* the question 'overwrite': its type and its message are evaluated
OverwriteType ==
    /\ pc = "overwriteType"
    /\ \/ /\ Exists(fs, FsPath(targetDir)) /\ ~IsDir(fs, FsPath(targetDir))
          \* readdirSync throws ENOTDIR inside prompts; init's catch prints it
          /\ Abort("ENOTDIR", <<"ENOTDIR">>)
          /\ UNCHANGED <<message, trace>>
       \/ /\ ~(Exists(fs, FsPath(targetDir)) /\ ~IsDir(fs, FsPath(targetDir)))
          /\ OverwritePromptType(fs, targetDir) = "null"
          /\ pc' = "overwriteChecker"
          /\ UNCHANGED <<message, trace, stdout, exitCode, error>>
       \/ /\ ~(Exists(fs, FsPath(targetDir)) /\ ~IsDir(fs, FsPath(targetDir)))
          /\ OverwritePromptType(fs, targetDir) = "select"
          /\ message' = OverwriteMessage(targetDir)
          /\ stdout' = Append(stdout, OverwriteMessage(targetDir))
          /\ Enter("AwaitingOverwriteDecision")
          /\ pc' = "askOverwrite"
          /\ UNCHANGED <<exitCode, error>>
    /\ UNCHANGED <<argv0, argTargetDir, targetDir, fs, fs0, overwrite,
                   framework, scratch, scratch0, archive, questions, asked,
                   locals, pending, writes, tpl>>

\* the user answers the overwrite prompt, or interrupts it
AskOverwrite ==
    /\ pc = "askOverwrite"
    /\ \/ \E choice \in {"yes", "no", "ignore"} :
            /\ overwrite' = choice
            /\ pc' = "overwriteChecker"
            /\ UNCHANGED <<stdout, exitCode, error>>
       \/ /\ Abort("cancel", CancelledMessage)
          /\ UNCHANGED overwrite
    /\ UNCHANGED <<argv0, argTargetDir, targetDir, fs, fs0, message, framework,
                   trace, scratch, scratch0, archive, questions, asked, locals,
                   pending, writes, tpl>>

\* the check without its throw: 'no' continues like the other answers
OverwriteChecker_NeverThrows ==
    /\ pc = "overwriteChecker"
    /\ pc' = "selectFramework"
    /\ UNCHANGED <<argv0, argTargetDir, targetDir, fs, fs0, message, overwrite,
                   framework, stdout, exitCode, error, trace, scratch,
                   scratch0, archive, questions, asked, locals, pending,
                   writes, tpl>>

\* the question 'overwriteChecker': throws when the answer was 'no'
OverwriteChecker ==
    /\ pc = "overwriteChecker"
    /\ \/ /\ overwrite = "no"
          /\ Abort("cancel", CancelledMessage)
       \/ /\ overwrite # "no"
          /\ pc' = "selectFramework"
          /\ UNCHANGED <<stdout, exitCode, error>>
    /\ UNCHANGED <<argv0, argTargetDir, targetDir, fs, fs0, message, overwrite,
                   framework, trace, scratch, scratch0, archive, questions,
                   asked, locals, pending, writes, tpl>>

\* the question 'framework'
SelectFramework ==
    /\ pc = "selectFramework"
    /\ Enter("SelectingTemplate")
    /\ \/ \E choice \in Frameworks :
            /\ framework' = choice
            /\ pc' = "prepareRoot"
            /\ UNCHANGED <<stdout, exitCode, error>>
       \/ /\ Abort("cancel", CancelledMessage)
          /\ UNCHANGED framework
    /\ UNCHANGED <<argv0, argTargetDir, targetDir, fs, fs0, message, overwrite,
                   scratch, scratch0, archive, questions, asked, locals,
                   pending, writes, tpl>>

\* const root = path.join(cwd, targetDir)
Root(dir) == JoinCwd(dir)

\* if (overwrite === 'yes') emptyDir(root) else if (!exists(root)) mkdirSync
PrepareRoot ==
    /\ pc = "prepareRoot"
    /\ IF overwrite = "yes"
       THEN IF Exists(fs, Root(targetDir)) /\ ~IsDir(fs, Root(targetDir))
            THEN Crash("ENOTDIR") /\ UNCHANGED fs
            ELSE /\ fs' = emptyDir(fs, Root(targetDir))
                 /\ pc' = "download"
                 /\ UNCHANGED <<exitCode, error>>
       ELSE IF Exists(fs, Root(targetDir))
            THEN /\ pc' = "download"
                 /\ UNCHANGED <<fs, exitCode, error>>
            ELSE IF CanMkdirp(fs, Root(targetDir))
                 THEN /\ fs' = Mkdirp(fs, Root(targetDir))
                      /\ pc' = "download"
                      /\ UNCHANGED <<exitCode, error>>
                 ELSE Crash("ENOTDIR") /\ UNCHANGED fs
    /\ UNCHANGED <<argv0, argTargetDir, targetDir, fs0, message, overwrite,
                   framework, stdout, trace, scratch, scratch0, archive,
                   questions, asked, locals, pending, writes, tpl>>

(***************************************************************************)
(* The package the registry serves                                         *)
(***************************************************************************)
Entry(key, name, initial) == [key |-> key, name |-> name, initial |-> initial]

NameKey == <<"name">>
DescKey == <<"desc">>

\* what import(`${templateDir}/index.js`) may give
Manifests ==
    { [load |-> "notfound", entries |-> <<>>],
      [load |-> "throws",   entries |-> <<>>],
      [load |-> "mapping",  entries |-> << Entry(NameKey, Undefined, Undefined) >>],
      [load |-> "function", entries |-> << Entry(NameKey, Undefined, <<"I">>),
                                           Entry(DescKey, <<"d2">>, Undefined) >>],
      [load |-> "mapping",  entries |-> << Entry(DescKey, Undefined, Undefined) >>],
      [load |-> "mapping",  entries |-> << Entry(DescKey, Undefined, Undefined),
                                           Entry(NameKey, Undefined, Undefined) >>] }

TextFile(d) == [kind |-> "file", data |-> d, text |-> TRUE]

BinaryFile(d) == [kind |-> "file", data |-> d, text |-> FALSE]

Directory == [kind |-> "dir", data |-> <<>>, text |-> FALSE]

Symlink(t) == [kind |-> "link", data |-> t, text |-> FALSE]

Other == [kind |-> "other", data |-> <<>>, text |-> FALSE]

NameToken == <<"{", "{", "name", "}", "}">>
DescToken == <<"{", "{", " ", "desc", " ", "}", "}">>

\* the boilerplate trees: relative path |-> entry
Payloads ==
    { ( <<"README">>     :> TextFile(<<"Hello", " ">> \o NameToken \o <<"!">>) ) @@
      ( <<"_gitignore">> :> TextFile(<<"dist">>) ) @@
      ( <<"lnk">>        :> Symlink(<<"README">>) ),
      ( <<"src">>           :> Directory ) @@
      ( <<"src", "/", "a">> :> TextFile(DescToken) ) @@
      ( <<"bin">>           :> BinaryFile(NameToken) ) @@
      ( <<"dev">>           :> Other ),
      ( NameToken                 :> Directory ) @@
      ( NameToken \o <<"/", "a">> :> TextFile(<<"a">>) ),
      ( <<"gitignore">>           :> Directory ) @@
      ( <<"gitignore", "/", "x">> :> TextFile(<<"x">>) ) @@
      ( DescToken \o <<".", "md">> :> TextFile(<<"\\">> \o NameToken) ) }

\* what the user may type at a variable prompt
AnswerInputs == { <<>>, <<"World">> }

(***************************************************************************)
(* downloadBoilerplate                                                     *)
(***************************************************************************)
Download ==
    /\ pc = "download"
    /\ Enter("FetchingArchive")
    /\ \/ \* getPackageDetail fails: the scratch directory is not touched
          /\ Crash("network")
          /\ UNCHANGED <<scratch, archive>>
       \/ \* the scratch directory is cleared, then the download fails
          /\ Crash("network")
          /\ scratch' = "empty"
          /\ UNCHANGED archive
       \/ \E m \in Manifests, p \in Payloads :
            /\ scratch' = "fresh"
            /\ archive' = [manifest |-> m, payload |-> p]
            /\ pc' = "loadManifest"
            /\ UNCHANGED <<exitCode, error>>
    /\ UNCHANGED <<argv0, argTargetDir, targetDir, fs, fs0, message, overwrite,
                   framework, stdout, scratch0, questions, asked, locals,
                   pending, writes, tpl>>

(***************************************************************************)
(* askForVariable                                                          *)
(***************************************************************************)
HasKey(entries, key) == \E k \in 1..Len(entries) : entries[k].key = key

\* path.basename(targetDir)
Basename(dir) == ParseBase(dir)

\* if (!questions.name?.initial) questions.name.initial = basename(targetDir)
WithNameInitial(entries, dir) ==
    [k \in 1..Len(entries) |->
        IF entries[k].key = NameKey /\ ~Truthy(entries[k].initial)
        THEN [entries[k] EXCEPT !.initial = Basename(dir)]
        ELSE entries[k]]

\* keys.map(key => ({...question, name: question.name || key, ...}))
ToQuestions(entries) ==
    [k \in 1..Len(entries) |->
        [name |-> IF Truthy(entries[k].name) THEN entries[k].name
                  ELSE entries[k].key,
         initial |-> entries[k].initial]]

ConfigTrouble == <<"load boilerplate config got trouble, skip and use defaults">>

\* the try block of askForVariable and its catch
LoadManifest ==
    /\ pc = "loadManifest"
    /\ Enter("CollectingVariables")
    /\ LET m == archive.manifest IN
       \/ /\ m.load = "notfound"
          /\ pc' = "glob"
          /\ UNCHANGED <<questions, stdout>>
       \/ /\ m.load = "throws"
          /\ stdout' = Append(stdout, ConfigTrouble)
          /\ pc' = "glob"
          /\ UNCHANGED questions
       \/ /\ m.load \in {"mapping", "function"}
          /\ ~HasKey(m.entries, NameKey)
          \* questions.name is undefined: the assignment throws a TypeError
          /\ stdout' = Append(stdout, ConfigTrouble)
          /\ pc' = "glob"
          /\ UNCHANGED questions
       \/ /\ m.load \in {"mapping", "function"}
          /\ HasKey(m.entries, NameKey)
          /\ questions' = ToQuestions(WithNameInitial(m.entries, targetDir))
          /\ pc' = "askVariable"
          /\ UNCHANGED stdout
    /\ UNCHANGED <<argv0, argTargetDir, targetDir, fs, fs0, message, overwrite,
                   framework, exitCode, error, scratch, scratch0, archive,
                   asked, locals, pending, writes, tpl>>

\* answers[name] = answer
SetLocal(l, name, value) ==
    [k \in DOMAIN l \cup {name} |-> IF k = name THEN value ELSE l[k]]

\* one question of prompts(...): answered, or interrupted (onCancel)
AskVariable ==
    /\ pc = "askVariable"
    /\ asked' = Append(asked, Head(questions).name)
    /\ \/ \E typed \in AnswerInputs :
            /\ locals' = SetLocal(locals, Head(questions).name,
                                  IF typed = <<>> /\ Truthy(Head(questions).initial)
                                  THEN Head(questions).initial ELSE typed)
            /\ questions' = Tail(questions)
            /\ pc' = IF Tail(questions) = <<>> THEN "glob" ELSE "askVariable"
            /\ UNCHANGED <<stdout, exitCode, error>>
       \/ \* console.log('exit'); process.exit(1)
          /\ stdout' = Append(stdout, <<"exit">>)
          /\ pc' = "exited"
          /\ error' = "cancel"
          /\ exitCode' = "nonzero"
          /\ UNCHANGED <<locals, questions>>
    /\ UNCHANGED <<argv0, argTargetDir, targetDir, fs, fs0, message, overwrite,
                   framework, trace, scratch, scratch0, archive, pending,
                   writes, tpl>>

(***************************************************************************)
(* processFiles                                                            *)
(***************************************************************************)
\* const files = glob.sync('**/*', {dot: true, onlyFiles: false, ...})
Glob ==
    /\ pc = "glob"
    /\ Enter("Instantiating")
    /\ pending' = DOMAIN archive.payload
    /\ pc' = "processFile"
    /\ UNCHANGED <<argv0, argTargetDir, targetDir, fs, fs0, message, overwrite,
                   framework, stdout, exitCode, error, scratch, scratch0,
                   archive, questions, asked, locals, writes, tpl>>

\* the walk lists a directory before the entries below it
MayVisit(file) ==
    /\ file \in pending
    /\ \A g \in pending : g # file => ~IsPrefix(g \o <<"/">>, file)

\* the body of files.forEach, by the kind lstat reports
Visit(f, to, node, scope) ==
    IF node.kind = "link"
    THEN IF ~IsDir(f, Parent(to)) THEN [err |-> "ENOENT", fs |-> f]
         ELSE IF Exists(f, to) THEN [err |-> "EEXIST", fs |-> f]
         ELSE [err |-> "none", fs |-> Put(f, to, LinkNode(node.data))]
    ELSE IF node.kind = "dir"
    THEN IF CanMkdirp(f, to) THEN [err |-> "none", fs |-> Mkdirp(f, to)]
         ELSE [err |-> "ENOTDIR", fs |-> f]
    ELSE IF node.kind = "file"
    THEN IF ~IsDir(f, Parent(to)) THEN [err |-> "ENOENT", fs |-> f]
         ELSE IF IsDir(f, to) THEN [err |-> "EISDIR", fs |-> f]
         ELSE [err |-> "none",
               fs |-> Put(f, to, FileNode(IF node.text
                                          THEN replaceTemplate(node.data, scope)
                                          ELSE node.data))]
    ELSE [err |-> "none", fs |-> f]

ProcessFile ==
    /\ pc = "processFile"
    /\ \E file \in pending :
         /\ MayVisit(file)
         /\ LET to == Destination(targetDir, file, locals)
                r  == Visit(fs, to, archive.payload[file], locals)
            IN  /\ writes' = writes \cup {[file |-> file, to |-> to]}
                /\ pending' = pending \ {file}
                /\ fs' = r.fs
                /\ stdout' = IF archive.payload[file].kind = "other"
                             THEN Append(stdout, <<"ignore ">> \o file)
                             ELSE stdout
                /\ IF r.err = "none"
                   THEN UNCHANGED <<pc, exitCode, error>>
                   ELSE Crash(r.err)
    /\ UNCHANGED <<argv0, argTargetDir, targetDir, fs0, message, overwrite,
                   framework, trace, scratch, scratch0, archive, questions,
                   asked, locals, tpl>>

RECURSIVE JoinPath(_)
JoinPath(p) ==
    IF p = <<>> THEN <<>>
    ELSE IF Len(p) = 1 THEN Head(p)
    ELSE Head(p) \o <<"/">> \o JoinPath(Tail(p))

\* path.relative(cwd, root)
RelativeToCwd(p) == JoinPath(SubSeq(p, Len(cwd) + 1, Len(p)))

\* printUsage(cdProjectName); init returns
Finish ==
    /\ pc = "processFile"
    /\ pending = {}
    /\ Enter("Done")
    /\ stdout' = Append(stdout, <<"usage: - cd ">> \o RelativeToCwd(Root(targetDir)))
    /\ exitCode' = "zero"
    /\ pc' = "done"
    /\ UNCHANGED <<argv0, argTargetDir, targetDir, fs, fs0, message, overwrite,
                   framework, error, scratch, scratch0, archive, questions,
                   asked, locals, pending, writes, tpl>>

Next ==
    \/ ResolveTarget
    \/ SearchTemplate
    \/ ProjectName
    \/ OverwriteType
    \/ AskOverwrite
    \/ OverwriteChecker
    \/ SelectFramework
    \/ PrepareRoot
    \/ Download
    \/ LoadManifest
    \/ AskVariable
    \/ Glob
    \/ ProcessFile
    \/ Finish

Spec == Init /\ [][Next]_vars

(***************************************************************************)
(* replaceTemplate on its own: every content of up to MaxPieces pieces     *)
(***************************************************************************)
MaxPieces == 3

Pieces ==
    { NameToken, DescToken, <<"{", "{", "toString", "}", "}">>,
      <<"{", "{", "none", " ", "}", "}">>,
      <<"\\">>, <<"{">>, <<"}">>, <<"a">>, <<" ">> }

RECURSIVE Concat(_)
Concat(ps) == IF ps = <<>> THEN <<>> ELSE Head(ps) \o Concat(Tail(ps))

Contents == { Concat(ps) : ps \in UNION { [1..n -> Pieces] : n \in 0..MaxPieces } }

Values == { <<>>, <<"World">> }

Scopes == UNION { [ks -> Values] : ks \in SUBSET {NameKey, DescKey} }

InitReplace ==
    /\ pc = "replace"
    /\ tpl \in { [content |-> c, scope |-> sc, result |-> <<>>] :
                   c \in Contents, sc \in Scopes }
    /\ argv0 = Undefined
    /\ argTargetDir = Undefined
    /\ targetDir = Undefined
    /\ fs = InitFs("absent", {})
    /\ fs0 = fs
    /\ message = <<>>
    /\ overwrite = Unset
    /\ framework = Unset
    /\ stdout = <<>>
    /\ exitCode = "running"
    /\ error = "none"
    /\ trace = <<>>
    /\ scratch = "absent"
    /\ scratch0 = scratch
    /\ archive = NoArchive
    /\ questions = <<>>
    /\ asked = <<>>
    /\ locals = <<>>
    /\ pending = {}
    /\ writes = {}

\* one call replaceTemplate(content, scope)
ReplaceTemplateCall ==
    /\ pc = "replace"
    /\ tpl' = [tpl EXCEPT !.result = replaceTemplate(tpl.content, tpl.scope)]
    /\ pc' = "replaced"
    /\ UNCHANGED <<argv0, argTargetDir, targetDir, fs, fs0, message, overwrite,
                   framework, stdout, exitCode, error, trace, scratch,
                   scratch0, archive, questions, asked, locals, pending,
                   writes>>

NextReplace == ReplaceTemplateCall

SpecReplace == InitReplace /\ [][NextReplace]_vars

(***************************************************************************)
(* Properties of the run                                                   *)
(***************************************************************************)
Entered(stage) == \E k \in 1..Len(trace) : trace[k] = stage

\* the target is a directory holding something besides `.git`
Conflict(f, dir) ==
    /\ FsPath(dir) \in DOMAIN f
    /\ f[FsPath(dir)].kind = "dir"
    /\ Readdir(f, FsPath(dir)) # {}
    /\ Readdir(f, FsPath(dir)) # {DotGit}

\* C1: when the normalized target is `.` and the overwrite decision is
\* presented, the message starts "Current directory" + " is not empty." and
\* holds no quote; the quoted form appears only for targets other than `.`
C1_CurrentDirectoryMessage ==
    message # <<>> =>
       /\ targetDir = <<".">> =>
            /\ SubSeq(message, 1, 2) = <<"Current directory", " is not empty.">>
            /\ \A k \in 1..Len(message) : message[k] # "\""
       /\ (\E k \in 1..Len(message) : message[k] = "\"") =>
            /\ targetDir # <<".">>
            /\ SubSeq(message, 1, 2) = <<"Target directory ", "\"">>
            /\ SubSeq(message, 3, Len(targetDir) + 3) = targetDir \o <<"\"">>

\* C1 witness: `./` was given, the current directory is not empty, and the
\* decision is on screen
C1_Witness ==
    /\ pc = "askOverwrite"
    /\ argv0 = <<".", "/">>
    /\ targetDir = <<".">>
    /\ message # <<>>

\* C2: once the overwrite question has been evaluated, the decision has been
\* presented exactly when the target is an existing directory whose entries
\* are neither none nor `.git` alone
C2_DecisionIffConflict ==
    (pc \in {"askOverwrite", "overwriteChecker", "selectFramework", "prepareRoot"}
       \/ (pc = "aborted" /\ error = "ENOTDIR"))
      => (Entered("AwaitingOverwriteDecision") <=> Conflict(fs0, targetDir))

\* C2 witness: `.git` together with another entry: the decision is presented
C2_Witness ==
    /\ pc = "askOverwrite"
    /\ Readdir(fs, FsPath(targetDir)) = {DotGit, PackageJson}

\* C2 second witness: `.git` alone: the decision is skipped
C2_WitnessSkipped ==
    /\ pc = "overwriteChecker"
    /\ Readdir(fs, FsPath(targetDir)) = {DotGit}
    /\ ~Entered("AwaitingOverwriteDecision")

\* C3: every user cancellation ends the run with a non-zero outcome after a
\* message is printed, and no later stage runs
C3_CancelExitsNonZero ==
    error = "cancel" =>
       /\ exitCode = "nonzero"
       /\ stdout # <<>>
       /\ pc \in {"aborted", "exited"}

\* C4: after `cancel` in the overwrite decision the run is at the check that
\* throws or in the terminal state it throws to, and nothing has been touched:
\* the file system and the scratch directory are as before the run, nothing
\* was fetched, asked or instantiated; and the file system changes only once
\* the decision is behind, without cancel
C4_CancelHasNoSideEffects ==
    /\ overwrite = "no" =>
          /\ pc \in {"overwriteChecker", "aborted"}
          /\ pc = "aborted" => error = "cancel"
          /\ fs = fs0
          /\ scratch = scratch0
          /\ archive = NoArchive
          /\ asked = <<>>
          /\ writes = {}
          /\ ~Entered("SelectingTemplate")
          /\ ~Entered("FetchingArchive")
    /\ fs # fs0 =>
          /\ overwrite # "no"
          /\ pc \notin {"start", "search", "projectName", "overwriteType",
                        "askOverwrite", "overwriteChecker", "aborted"}
          /\ Conflict(fs0, targetDir) => overwrite \in {"yes", "ignore"}

\* C4 witness: the user chose cancel and the run has ended
C4_Witness ==
    /\ pc = "aborted"
    /\ overwrite = "no"
    /\ error = "cancel"

\* C4 second witness: a missing target is created after the prompts
C4_WitnessCreated ==
    /\ pc = "download"
    /\ ~Exists(fs0, Root(targetDir))
    /\ IsDir(fs, Root(targetDir))

\* the position of a stage in the order the specification document gives
RankDocumented(stage) ==
    CASE stage = "ResolvingTarget"           -> 1
      [] stage = "SearchingTemplates"        -> 2
      [] stage = "SelectingTemplate"         -> 3
      [] stage = "AwaitingOverwriteDecision" -> 4
      [] stage = "FetchingArchive"           -> 5
      [] stage = "CollectingVariables"       -> 6
      [] stage = "Instantiating"             -> 7
      [] stage = "Done"                      -> 8
      [] OTHER                               -> 0

\* the position of a stage in the order init follows
RankObserved(stage) ==
    CASE stage = "ResolvingTarget"           -> 1
      [] stage = "SearchingTemplates"        -> 2
      [] stage = "PromptingProjectName"      -> 3
      [] stage = "AwaitingOverwriteDecision" -> 4
      [] stage = "SelectingTemplate"         -> 5
      [] stage = "FetchingArchive"           -> 6
      [] stage = "CollectingVariables"       -> 7
      [] stage = "Instantiating"             -> 8
      [] stage = "Done"                      -> 9
      [] OTHER                               -> 0

\* C5 as stated: the stages named in the document's order are entered in that
\* order, each at most once
C5_DocumentedOrder ==
    \A i, j \in 1..Len(trace) :
        (i < j /\ RankDocumented(trace[i]) # 0 /\ RankDocumented(trace[j]) # 0)
          => RankDocumented(trace[i]) < RankDocumented(trace[j])

\* C5 amended: the stages are entered in the order ResolvingTarget,
\* SearchingTemplates, (the project-name prompt when no argument was given),
\* AwaitingOverwriteDecision (only on conflict), SelectingTemplate,
\* FetchingArchive, CollectingVariables, Instantiating, Done; each at most
\* once; and a conflict is reported before any fetch or instantiation
C5_ObservedOrder ==
    /\ \A i \in 1..Len(trace) : RankObserved(trace[i]) # 0
    /\ \A i, j \in 1..Len(trace) :
          i < j => RankObserved(trace[i]) < RankObserved(trace[j])
    /\ Entered("AwaitingOverwriteDecision") => Conflict(fs0, targetDir)
    /\ (Conflict(fs0, targetDir)
          /\ (Entered("FetchingArchive") \/ Entered("Instantiating") \/ writes # {}))
         => Entered("AwaitingOverwriteDecision")
    /\ pc = "done" =>
          /\ Entered("FetchingArchive")
          /\ Entered("CollectingVariables")
          /\ Entered("Instantiating")
          /\ Entered("SelectingTemplate")

\* C5 witness: a run with no argument and a conflict went through every stage
C5_Witness ==
    /\ pc = "done"
    /\ trace = <<"ResolvingTarget", "SearchingTemplates", "PromptingProjectName",
                 "AwaitingOverwriteDecision", "SelectingTemplate",
                 "FetchingArchive", "CollectingVariables", "Instantiating",
                 "Done">>

\* the paths at and below p, with their nodes
Subtree(f, p) == [q \in {r \in DOMAIN f : IsPrefix(p, r)} |-> f[q]]

\* C6: after remove-and-continue, when the fetch is about to start, the
\* directory that was checked for the conflict holds nothing but `.git`,
\* `.git` is as it was, and the directory cleaned is the one checked and the
\* one instantiation writes into
C6_CleanedIsChecked ==
    (pc = "download" /\ overwrite = "yes") =>
       /\ Readdir(fs, FsPath(targetDir)) \subseteq {DotGit}
       /\ Subtree(fs, FsPath(targetDir) \o <<DotGit>>)
            = Subtree(fs0, FsPath(targetDir) \o <<DotGit>>)
       /\ Root(targetDir) = FsPath(targetDir)

\* C6 on targets given relative to the working directory, where it holds
C6_RelativeTargetsCleaned ==
    (pc = "download" /\ overwrite = "yes" /\ ~IsAbsolute(targetDir)) =>
       /\ Readdir(fs, FsPath(targetDir)) \subseteq {DotGit}
       /\ Subtree(fs, FsPath(targetDir) \o <<DotGit>>)
            = Subtree(fs0, FsPath(targetDir) \o <<DotGit>>)
       /\ Root(targetDir) = FsPath(targetDir)

RECURSIVE C7_ReferenceFrom(_, _, _)
\* the substitution C7 describes: an escaped token loses its escape, a token
\* whose key is in Locals becomes the value, every other token stays
C7_ReferenceFrom(s, scope, i) ==
    IF i > Len(s) THEN <<>>
    ELSE LET m == MatchAt(s, i) IN
         IF m.ok
         THEN (IF m.skip THEN SubSeq(s, i + 1, m.next - 1)
               ELSE IF m.key \in DOMAIN scope THEN scope[m.key]
               ELSE SubSeq(s, i, m.next - 1))
                \o C7_ReferenceFrom(s, scope, m.next)
         ELSE <<s[i]>> \o C7_ReferenceFrom(s, scope, i + 1)

\* C7: replaceTemplate agrees with the reference for every content and Locals
C7_AgreesWithReference ==
    pc = "replaced" => tpl.result = C7_ReferenceFrom(tpl.content, tpl.scope, 1)

\* C7 where it holds: no value is empty and no key names an inherited member
C7_AgreesOnTruthyOwnKeys ==
    (pc = "replaced"
       /\ (\A k \in DOMAIN tpl.scope : tpl.scope[k] # <<>>)
       /\ (\A i \in 1..Len(tpl.content) : tpl.content[i] # "toString"))
      => tpl.result = C7_ReferenceFrom(tpl.content, tpl.scope, 1)

\* the name a manifest entry is asked under
C8_NameOf(e) == IF e.name # Undefined THEN e.name ELSE e.key

\* C8: when the manifest loaded as a mapping, one question per entry was
\* asked, in order, each under its name or key, and Locals holds one answer
\* per entry; Locals is empty only when the manifest is absent or fails to load
C8_OneQuestionPerEntry ==
    pc = "glob" =>
       /\ archive.manifest.load \in {"mapping", "function"} =>
            /\ Len(asked) = Len(archive.manifest.entries)
            /\ \A k \in 1..Len(asked) :
                   asked[k] = C8_NameOf(archive.manifest.entries[k])
            /\ DOMAIN locals = {asked[k] : k \in 1..Len(asked)}
       /\ DOMAIN locals = {} => archive.manifest.load \in {"notfound", "throws"}

\* C8 where it holds: manifests with an entry under the key `name`
C8_HoldsWithNameEntry ==
    (pc = "glob" /\ HasKey(archive.manifest.entries, NameKey)) =>
       /\ Len(asked) = Len(archive.manifest.entries)
       /\ \A k \in 1..Len(asked) :
              asked[k] = C8_NameOf(archive.manifest.entries[k])
       /\ DOMAIN locals = {asked[k] : k \in 1..Len(asked)}

\* the destination C9 describes: placeholders substituted in the directory
\* part, alias and placeholders in the base
C9_Documented(dir, file, scope) ==
    FsPath(dir \o <<"/">> \o replaceTemplate(ParseDir(file), scope) \o <<"/">>
             \o replaceTemplate(MappedName(ParseBase(file)), scope))

\* C9: every entry is written to target/dir'/base'
C9_DestinationAsDocumented ==
    \A w \in writes : w.to = C9_Documented(targetDir, w.file, locals)

\* C10: when processFiles writes a file or creates a link below a payload
\* directory, the parent of the destination exists (the file system only
\* grows during processFiles, and a failed write leaves it as it was)
C10_ParentExists ==
    \A w \in writes :
        (archive.payload[w.file].kind \in {"file", "link"} /\ ParseDir(w.file) # <<>>)
          => IsDir(fs, Parent(w.to))

\* C10 where it holds: entries whose ancestors' names are taken literally
C10_HoldsForLiteralAncestors ==
    \A w \in writes :
        (/\ archive.payload[w.file].kind \in {"file", "link"}
         /\ ParseDir(w.file) # <<>>
         /\ replaceTemplate(MappedName(ParseDir(w.file)), locals) = ParseDir(w.file))
          => IsDir(fs, Parent(w.to))

=============================================================================
